---- MODULE Spec2Model ----
(***************************************************************************)
(* Model of the ragonrag ingestion code.                                   *)
(*                                                                         *)
(*   Spec       code/parse_and_chunk.py: process_pdf_file and process_url  *)
(*              (parse_pdf, fetch_url, scrape_url, chunk_text and the      *)
(*              record loop), one source per behaviour.                    *)
(*   SpecDocai  src/docai_prototype.py: process_pdf and process_small_pdf  *)
(*              against the remote document service.                       *)
(*                                                                         *)
(* Text is a sequence of symbols.  A symbol is one character; the symbols  *)
(* " " and "\n" are whitespace, every other symbol is a non-whitespace     *)
(* character.  The two sentinels "[CODEBLOCK]" and "[/CODEBLOCK]" are      *)
(* written as one symbol each: they contain no whitespace, so str.split,   *)
(* str.strip and str.splitlines treat them as they treat one character.    *)
(***************************************************************************)
EXTENDS Integers, Sequences, FiniteSets, TLC

VARIABLES
    pc,          \* position in the code of the running call
    kind,        \* "pdf" (process_pdf_file), "url" (process_url), "docai"
    source,      \* the path or URL argument
    max_words,   \* argument max_words
    overlap,     \* argument overlap
    attempt,     \* fetch_url: loop index i of enumerate(attempts, start=1)
    resp,        \* fetch_url: local resp (NoResp is None)
    requests,    \* history: the requests.get calls of the running scrape_url call
    err,         \* the exception raised, NoErr when none
    soup,        \* scrape_url: the parsed page (kept until chunk_text starts)
    marks,       \* scrape_url: output lines, each with the code elements owning it
    text,        \* the normalised text handed to chunk_text
    words,       \* chunk_text: local words
    i,           \* chunk_text: local i; then the enumerate index of the record loop
    chunks,      \* chunk_text: local chunks
    starts,      \* history: the value of i at each chunks.append
    out,         \* process_*: local out
    uuids,       \* number of uuid4() values drawn so far
    page_count,  \* process_pdf: len(reader.pages)
    maxpages,    \* process_pdf: argument maxpages
    gi,          \* process_pdf: loop index i of range(page_count)
    page_number, \* process_small_pdf: argument page_number (0 is None)
    num_pages,   \* process_small_pdf: len(doc.pages) of the current response
    pidx,        \* process_small_pdf: pages of the current response consumed
    cur,         \* process_small_pdf: local blocks of the current call
    blocks,      \* process_pdf: local blocks
    calls,       \* history: number of client.process_document calls
    lists,       \* history: the list each process_small_pdf call returned
    batch,       \* main: the inputs of a batch run (sorted PDFs, or the rows of the TSV)
    taken,       \* main: inputs the loop has taken so far
    items,       \* main: local items (parse_and_chunk.py) or blocks (docai_prototype.py)
    results      \* history: what the call for each input ended with

vars == <<pc, kind, source, max_words, overlap, attempt, resp, requests, err,
          soup, marks, text, words, i, chunks, starts, out, uuids,
          page_count, maxpages, gi, page_number, num_pages, pidx, cur, blocks,
          calls, lists, batch, taken, items, results>>

pipeVars == <<kind, source, max_words, overlap, attempt, resp, requests, err,
              soup, marks, text, words, i, chunks, starts, out, uuids>>

docaiVars == <<page_count, maxpages, gi, page_number, num_pages, pidx, cur,
               blocks, calls, lists>>

mainVars == <<batch, taken, items, results>>

---------------------------------------------------------------------------
(* Bounds of the model *)

MaxWords == 3       \* max_words ranges over 1..MaxWords
MaxPdfPages == 2    \* pages of a local PDF
MaxElems == 2       \* top-level elements of a web page

---------------------------------------------------------------------------
(* Sequences and strings *)

Min(a, b) == IF a < b THEN a ELSE b

SeqsUpTo(S, n) == UNION {[1..k -> S] : k \in 0..n}

RECURSIVE Concat(_)
Concat(ss) == IF ss = <<>> THEN <<>> ELSE Head(ss) \o Concat(Tail(ss))

Whitespace == {" ", "\n"}

\* s[lo:hi] for 0 <= lo
PySlice(s, lo, hi) == SubSeq(s, lo + 1, Min(hi, Len(s)))

\* sep.join(parts)
RECURSIVE Join(_, _)
Join(sep, parts) ==
    IF parts = <<>> THEN <<>>
    ELSE IF Len(parts) = 1 THEN parts[1]
    ELSE parts[1] \o sep \o Join(sep, Tail(parts))

\* str.strip()
RECURSIVE LStrip(_)
LStrip(s) == IF s # <<>> /\ Head(s) \in Whitespace THEN LStrip(Tail(s)) ELSE s
RECURSIVE RStrip(_)
RStrip(s) ==
    IF s # <<>> /\ s[Len(s)] \in Whitespace THEN RStrip(SubSeq(s, 1, Len(s) - 1)) ELSE s
Strip(s) == LStrip(RStrip(s))

\* str.split(): the maximal runs of non-whitespace symbols, in order
RECURSIVE SplitAcc(_, _, _)
SplitAcc(s, run, acc) ==
    IF s = <<>> THEN (IF run = <<>> THEN acc ELSE Append(acc, run))
    ELSE IF Head(s) \in Whitespace
         THEN SplitAcc(Tail(s), <<>>, IF run = <<>> THEN acc ELSE Append(acc, run))
         ELSE SplitAcc(Tail(s), Append(run, Head(s)), acc)
Split(s) == SplitAcc(s, <<>>, <<>>)

---------------------------------------------------------------------------
(* chunk_text *)

ChunkAtFromZero(ws, at, m) == Join(<<" ">>, PySlice(ws, at, m))
ChunkAtOneMore(ws, at, m) == Join(<<" ">>, PySlice(ws, at, at + m + 1))
\* " ".join(words[i : i + max_words])
ChunkAt(ws, at, m) == Join(<<" ">>, PySlice(ws, at, at + m))

StrideNoOverlap(m, o) == m
\* i += max_words - overlap
Stride(m, o) == m - o

WhileCondInclusive(at, n) == at <= n
\* while i < len(words)
WhileCond(at, n) == at < n

\* words = text.split(); chunks = []; i = 0
chunk_text_init ==
    /\ pc \in {"parsed", "scraped"}
    /\ words' = Split(text)
    /\ chunks' = <<>>
    /\ starts' = <<>>
    /\ i' = 0
    /\ soup' = <<>>
    /\ marks' = <<>>
    /\ pc' = "chunk_text"
    /\ UNCHANGED <<kind, source, max_words, overlap, attempt, resp, requests, err,
                   text, out, uuids>>
    /\ UNCHANGED docaiVars
    /\ UNCHANGED mainVars

\* one iteration of   while i < len(words)
chunk_text_loop ==
    /\ pc = "chunk_text"
    /\ WhileCond(i, Len(words))
    /\ chunks' = Append(chunks, ChunkAt(words, i, max_words))
    /\ starts' = Append(starts, i)
    /\ i' = i + Stride(max_words, overlap)
    /\ UNCHANGED <<pc, kind, source, max_words, overlap, attempt, resp, requests, err,
                   soup, marks, text, words, out, uuids>>
    /\ UNCHANGED docaiVars
    /\ UNCHANGED mainVars

\* return chunks; the caller sets out = [] and starts enumerate(chunks)
chunk_text_return ==
    /\ pc = "chunk_text"
    /\ ~WhileCond(i, Len(words))
    /\ out' = <<>>
    /\ i' = 0
    /\ pc' = "records"
    /\ UNCHANGED <<kind, source, max_words, overlap, attempt, resp, requests, err,
                   soup, marks, text, words, chunks, starts, uuids>>
    /\ UNCHANGED docaiVars
    /\ UNCHANGED mainVars

---------------------------------------------------------------------------
(* parse_pdf *)

\* page.extract_text() returned None
NoneText == <<"None">>

\* "a b c d e f g h"
Example == <<"a", " ", "b", " ", "c", " ", "d", " ", "e", " ", "f", " ", "g", " ", "h">>

\* what extract_text() may give for one page
PageTexts ==
    { <<>>, NoneText, <<"a">>, <<"a", " ", "b">>, <<" ", "b", "\n">>,
      <<"b", " ", " ", "a", " ", "b">>, Example }

Pdfs == SeqsUpTo(PageTexts, MaxPdfPages)

\* text = page.extract_text() or ""
OrEmpty(t) == IF t = NoneText THEN <<>> ELSE t

\* "\n\n".join(texts).strip()
parse_pdf(pages) ==
    Strip(Join(<<"\n", "\n">>, [k \in 1..Len(pages) |-> OrEmpty(pages[k])]))

NoErr == [type |-> "none", url |-> "", attempts |-> 0]

\* text = parse_pdf(path)
process_pdf_file_parse ==
    /\ pc = "parse_pdf"
    /\ \E pages \in Pdfs : text' = parse_pdf(pages)
    /\ pc' = "parsed"
    /\ UNCHANGED <<kind, source, max_words, overlap, attempt, resp, requests, err,
                   soup, marks, words, i, chunks, starts, out, uuids>>
    /\ UNCHANGED docaiVars
    /\ UNCHANGED mainVars

\* pdfplumber.open(path) raises on an unreadable file
process_pdf_file_raise ==
    /\ pc = "parse_pdf"
    /\ err' = [type |-> "ParseError", url |-> "", attempts |-> 0]
    /\ pc' = "raised"
    /\ UNCHANGED <<kind, source, max_words, overlap, attempt, resp, requests,
                   soup, marks, text, words, i, chunks, starts, out, uuids>>
    /\ UNCHANGED docaiVars
    /\ UNCHANGED mainVars

---------------------------------------------------------------------------
(* fetch_url *)

Forbidden == 403

\* the statuses the server may answer with
Statuses == {200, 403, 404, 500}

\* what requests.get may do: answer with a status, or raise RequestException
Outcomes ==
    {[exc |-> FALSE, status |-> s] : s \in Statuses} \cup {[exc |-> TRUE, status |-> 0]}

\* attempts = [{UA: default_ua}, {UA: fallback_ua, Referer: url}]
attempts(url) ==
    << ("User-Agent" :> "default_ua"),
       ("User-Agent" :> "fallback_ua") @@ ("Referer" :> url) >>

raise_for_status_never(status) == FALSE
\* requests' raise_for_status(): HTTPError for a 4xx or 5xx status
raise_for_status(status) == status >= 400

on_success_continue == "continue"
\* what the loop does after raise_for_status() passes
on_success == "break"

NoResp == [status |-> 0, cfg |-> 0]

\* one iteration of   for i, hdrs in enumerate(attempts, start=1)
fetch_url_loop ==
    /\ pc = "fetch_url"
    /\ attempt <= Len(attempts(source))
    /\ \E o \in Outcomes :
         LET hdrs == attempts(source)[attempt]
             good == ~o.exc /\ o.status # Forbidden /\ ~raise_for_status(o.status)
             leave == good /\ on_success = "break"
         IN /\ requests' = Append(requests, [cfg |-> attempt, hdrs |-> hdrs, outcome |-> o])
            /\ resp' = IF good THEN [status |-> o.status, cfg |-> attempt] ELSE NoResp
            /\ attempt' = IF leave THEN attempt ELSE attempt + 1
            /\ pc' = IF leave \/ attempt + 1 > Len(attempts(source))
                     THEN "fetch_end" ELSE "fetch_url"
    /\ UNCHANGED <<kind, source, max_words, overlap, err,
                   soup, marks, text, words, i, chunks, starts, out, uuids>>
    /\ UNCHANGED docaiVars
    /\ UNCHANGED mainVars

\* if resp is None: raise requests.HTTPError(f"Failed to fetch {url} after {len(attempts)} attempts")
fetch_url_raise ==
    /\ pc = "fetch_end"
    /\ resp = NoResp
    /\ err' = [type |-> "HTTPError", url |-> source, attempts |-> Len(attempts(source))]
    /\ pc' = "raised"
    /\ UNCHANGED <<kind, source, max_words, overlap, attempt, resp, requests,
                   soup, marks, text, words, i, chunks, starts, out, uuids>>
    /\ UNCHANGED docaiVars
    /\ UNCHANGED mainVars

\* return resp
fetch_url_return ==
    /\ pc = "fetch_end"
    /\ resp # NoResp
    /\ pc' = "scrape_url"
    /\ UNCHANGED <<kind, source, max_words, overlap, attempt, resp, requests, err,
                   soup, marks, text, words, i, chunks, starts, out, uuids>>
    /\ UNCHANGED docaiVars
    /\ UNCHANGED mainVars

---------------------------------------------------------------------------
(* scrape_url *)

(* A page is the sequence of the top-level elements of the parsed document.  *)
(* A node is an element (tag, class, children) or a string ("#text") given   *)
(* as its lines, that is the string split at "\n".                           *)

TextNode(ls) == [tag |-> "#text", cls |-> "", lines |-> ls, kids |-> <<>>]
Element(tag, cls, kids) == [tag |-> tag, cls |-> cls, lines |-> <<>>, kids |-> kids]

\* "a"  and  "a\n \n b"
OneLine == << <<"a">> >>
ThreeLines == << <<"a">>, <<" ">>, <<" ", "b">> >>

\* what a top-level element may contain: a string, <code>a</code>, <code>a\n \n b</code>
Leaves ==
    { TextNode(OneLine),
      Element("code", "", <<TextNode(OneLine)>>),
      Element("code", "", <<TextNode(ThreeLines)>>) }

TagCls ==
    { <<"div", "">>, <<"div", "content">>, <<"div", "article">>,
      <<"pre", "">>, <<"nav", "">> }

Elements == {Element(tc[1], tc[2], <<l>>) : tc \in TagCls, l \in Leaves}

\* what resp.text may parse to
HtmlDocs == SeqsUpTo(Elements, MaxElems)

Noisy == {"script", "style", "header", "footer", "nav", "aside", "noscript"}

\* for tag in soup([...noisy...]): tag.decompose()
decompose(doc) == SelectSeq(doc, LAMBDA n : n.tag \notin Noisy)

ArticleClasses == <<"article", "main-content", "post-content", "article-content", "content">>

\* soup.find(class_=cls): the first element of that class in document order, 0 if none
FindClass(doc, cls) ==
    LET hits == {t \in 1..Len(doc) : doc[t].cls = cls}
    IN IF hits = {} THEN 0 ELSE CHOOSE t \in hits : \A u \in hits : t <= u

\* for cls in [...]: article = soup.find(class_=cls); if article: break
RECURSIVE FindArticle(_, _)
FindArticle(doc, k) ==
    IF k > Len(ArticleClasses) THEN 0
    ELSE IF FindClass(doc, ArticleClasses[k]) # 0 THEN FindClass(doc, ArticleClasses[k])
    ELSE FindArticle(doc, k + 1)

CodeTags == {"pre", "code"}

\* "\n\n[CODEBLOCK]\n" and "\n\n[/CODEBLOCK]\n", split at "\n"
OpenMark == << <<>>, <<>>, <<"[CODEBLOCK]">>, <<>> >>
CloseMark == << <<>>, <<>>, <<"[/CODEBLOCK]">>, <<>> >>

Entry(line, owners) == [line |-> line, owners |-> owners]
Entries(ls, owners) == [k \in 1..Len(ls) |-> Entry(ls[k], owners)]

\* base.find_all(["pre", "code"]): every such element gets the two sentinels
MarksElement(n) == n.tag \in CodeTags

(* get_text(separator="\n") after the insert_before / insert_after of lines   *)
(* 116-119: the lines of every string under the node, in document order.     *)
(* owners: the pre/code elements (by path) whose text the line belongs to.   *)
RECURSIVE Render(_, _, _)
Render(n, path, owners) ==
    IF n.tag = "#text" THEN Entries(n.lines, owners)
    ELSE LET mine == IF n.tag \in CodeTags THEN owners \cup {path} ELSE owners
             body == Concat([k \in 1..Len(n.kids) |->
                                Render(n.kids[k], Append(path, k), mine)])
         IN IF MarksElement(n)
            THEN Entries(OpenMark, {}) \o body \o Entries(CloseMark, {})
            ELSE body

\* base = article if article else soup, rendered
RenderBase(doc) ==
    LET a == FindArticle(doc, 1)
    IN IF a = 0
       THEN Concat([t \in 1..Len(doc) |-> Render(doc[t], <<t>>, {})])
       ELSE Concat([k \in 1..Len(doc[a].kids) |-> Render(doc[a].kids[k], <<a, k>>, {})])

\* (line.strip() for line in text.splitlines() if line.strip())
Collapse(es) ==
    LET kept == SelectSeq(es, LAMBDA e : Strip(e.line) # <<>>)
    IN [k \in 1..Len(kept) |-> Entry(Strip(kept[k].line), kept[k].owners)]

\* "\n".join(...)
JoinLines(es) == Join(<<"\n">>, [k \in 1..Len(es) |-> es[k].line])

\* soup = BeautifulSoup(resp.text) ... return text
scrape_url ==
    /\ pc = "scrape_url"
    /\ \E body \in HtmlDocs :
         LET doc == decompose(body)
             es == Collapse(RenderBase(doc))
         IN /\ soup' = doc
            /\ marks' = es
            /\ text' = JoinLines(es)
    /\ resp' = NoResp
    /\ attempt' = 0
    /\ requests' = <<>>
    /\ pc' = "scraped"
    /\ UNCHANGED <<kind, source, max_words, overlap, err,
                   words, i, chunks, starts, out, uuids>>
    /\ UNCHANGED docaiVars
    /\ UNCHANGED mainVars

---------------------------------------------------------------------------
(* process_pdf_file and process_url: the record loop *)

Paths == { <<"papers", "p1.pdf">> }
Urls == {"u1", "u2"}

\* path.name
Name(path) == path[Len(path)]

\* process_pdf_file builds its metadata; process_url passes on row.to_dict()
Metadata ==
    IF kind = "pdf" THEN [filename |-> Name(source), type |-> "pdf"]
    ELSE [url |-> source, title |-> "t"]

EnumIndexFromOne(n) == n + 1
\* enumerate(chunks): the index of the n-th iteration, n counted from 0
EnumIndex(n) == n

\* one iteration of   for i, c in enumerate(chunks): out.append({...})
process_loop ==
    /\ pc = "records"
    /\ i < Len(chunks)
    /\ out' = Append(out, [id |-> uuids + 1,
                           source |-> source,
                           chunk_index |-> EnumIndex(i),
                           text |-> chunks[i + 1],
                           metadata |-> Metadata])
    /\ uuids' = uuids + 1
    /\ i' = i + 1
    /\ UNCHANGED <<pc, kind, source, max_words, overlap, attempt, resp, requests, err,
                   soup, marks, text, words, chunks, starts>>
    /\ UNCHANGED docaiVars
    /\ UNCHANGED mainVars

\* return out
process_return ==
    /\ pc = "records"
    /\ ~(i < Len(chunks))
    /\ pc' = "done"
    /\ UNCHANGED pipeVars
    /\ UNCHANGED docaiVars
    /\ UNCHANGED mainVars

---------------------------------------------------------------------------
(* The calls process_pdf_file(path, max_words, overlap) and                 *)
(* process_url(url, max_words, overlap, metadata), with overlap < max_words *)

Init ==
    /\ kind \in {"pdf", "url"}
    /\ source \in (IF kind = "pdf" THEN Paths ELSE Urls)
    /\ max_words \in 1..MaxWords
    /\ overlap \in 0..(max_words - 1)
    /\ pc = (IF kind = "pdf" THEN "parse_pdf" ELSE "fetch_url")
    /\ attempt = 1
    /\ resp = NoResp
    /\ requests = <<>>
    /\ err = NoErr
    /\ soup = <<>>
    /\ marks = <<>>
    /\ text = <<>>
    /\ words = <<>>
    /\ i = 0
    /\ chunks = <<>>
    /\ starts = <<>>
    /\ out = <<>>
    /\ uuids = 0
    /\ page_count = 0
    /\ maxpages = 0
    /\ gi = 0
    /\ page_number = 0
    /\ num_pages = 0
    /\ pidx = 0
    /\ cur = <<>>
    /\ blocks = <<>>
    /\ calls = 0
    /\ lists = <<>>
    /\ batch = <<>>
    /\ taken = 0
    /\ items = <<>>
    /\ results = <<>>

Next ==
    \/ process_pdf_file_parse
    \/ process_pdf_file_raise
    \/ fetch_url_loop
    \/ fetch_url_raise
    \/ fetch_url_return
    \/ scrape_url
    \/ chunk_text_init
    \/ chunk_text_loop
    \/ chunk_text_return
    \/ process_loop
    \/ process_return

Spec == Init /\ [][Next]_vars

---------------------------------------------------------------------------
(* chunk_text(text, max_words, overlap) alone, on any text *)

MaxLen == 5         \* symbols of the text handed to chunk_text

\* the texts: "a" is a character of a word, " " and "\n" separate words
Texts == SeqsUpTo({"a", " ", "\n"}, MaxLen)

\* the call chunk_text(text, max_words, overlap), with overlap < max_words
InitChunk ==
    /\ kind = "pdf"
    /\ source \in Paths
    /\ max_words \in 1..MaxWords
    /\ overlap \in 0..(max_words - 1)
    /\ text \in Texts
    /\ pc = "parsed"
    /\ attempt = 0
    /\ resp = NoResp
    /\ requests = <<>>
    /\ err = NoErr
    /\ soup = <<>>
    /\ marks = <<>>
    /\ words = <<>>
    /\ i = 0
    /\ chunks = <<>>
    /\ starts = <<>>
    /\ out = <<>>
    /\ uuids = 0
    /\ page_count = 0
    /\ maxpages = 0
    /\ gi = 0
    /\ page_number = 0
    /\ num_pages = 0
    /\ pidx = 0
    /\ cur = <<>>
    /\ blocks = <<>>
    /\ calls = 0
    /\ lists = <<>>
    /\ batch = <<>>
    /\ taken = 0
    /\ items = <<>>
    /\ results = <<>>

NextChunk ==
    \/ chunk_text_init
    \/ chunk_text_loop
    \/ chunk_text_return

\* the interpreter runs the statement it is at: no step of the call waits forever
SpecChunk == InitChunk /\ [][NextChunk]_vars /\ WF_vars(NextChunk)

---------------------------------------------------------------------------
(* docai_prototype.py: process_pdf and process_small_pdf *)

MaxPages == 3       \* pages of the PDF handed to process_pdf
MaxMaxpages == 2    \* maxpages ranges over 1..MaxMaxpages

\* doc.text of a response, "References\nxy"; the heading word is one symbol
DocText == <<"References", "\n", "x", "y">>

Segment(a, b) == [start_index |-> a, end_index |-> b]
Vertex(x, y) == [x |-> x, y |-> y]

(* A layout element the service reports: a text anchor (segments of doc.text) *)
(* and the normalized vertices of its bounding polygon.  Coordinates are in   *)
(* halves: 0, 1, 2 stand for 0.0, 0.5, 1.0.                                   *)
LowBlock == [anchor |-> <<Segment(2, 3), Segment(3, 4)>>, verts |-> <<Vertex(0, 2)>>]
HeadingBlock == [anchor |-> <<Segment(0, 2)>>, verts |-> <<Vertex(0, 0), Vertex(2, 0)>>]
BareBlock == [anchor |-> <<>>, verts |-> <<>>]

\* what the service may list as the blocks of a page
CandLists ==
    { <<>>, <<LowBlock>>, <<HeadingBlock>>, <<LowBlock, HeadingBlock>>,
      <<HeadingBlock, LowBlock>>, <<LowBlock, LowBlock>>,
      <<HeadingBlock, LowBlock, HeadingBlock>>, <<BareBlock>>, <<LowBlock, BareBlock>> }

\* the pages a response may list: blocks, and paragraphs and lines to fall back on
ServicePages ==
    { [blocks |-> b, paragraphs |-> p, lines |-> l] :
        b \in CandLists,
        p \in {<<>>, <<[anchor |-> <<Segment(2, 3)>>, verts |-> <<Vertex(2, 2)>>]>>},
        l \in {<<>>, <<[anchor |-> <<Segment(3, 4)>>, verts |-> <<Vertex(0, 0)>>]>>} }

\* get_text_for_anchor(document, text_anchor)
get_text_for_anchor(doctext, anchor) ==
    Concat([k \in 1..Len(anchor) |->
               PySlice(doctext, anchor[k].start_index, anchor[k].end_index)])

\* bbox = [_vertex_to_dict(v) for v in verts]
vertex_to_dict(v) == [x |-> v.x, y |-> v.y]
BBox(verts) == [k \in 1..Len(verts) |-> vertex_to_dict(verts[k])]

\* candidates = list(p.blocks or []) or list(p.paragraphs or []) or list(p.lines or [])
Candidates(p) ==
    IF p.blocks # <<>> THEN p.blocks
    ELSE IF p.paragraphs # <<>> THEN p.paragraphs
    ELSE p.lines

\* page_num: int(p.page_number) if not page_number, else page_number
PageNum(arg, local) == IF arg = 0 THEN local ELSE arg

PageNumberArgZeroBased(idx) == idx
\* page_number=i+1 in the call of line 151
PageNumberArg(idx) == idx + 1

\* the metadata argument: a row of the TSV
RowMetadata == [pdf |-> "p1.pdf"]

(* The blocks one page adds to the list: Block(page, bbox, text, metadata).   *)
(* History fields: group (the index of the process_document call, from 0),   *)
(* local (the page number the service reported), ord (the position in the    *)
(* service's listing of the response).                                       *)
PageBlocks(p, arg, local, group, before) ==
    LET cs == Candidates(p)
    IN [k \in 1..Len(cs) |->
          [page |-> PageNum(arg, local),
           bbox |-> BBox(cs[k].verts),
           text |-> get_text_for_anchor(DocText, cs[k].anchor),
           metadata |-> RowMetadata,
           group |-> group,
           local |-> local,
           ord |-> before + k]]

RECURSIVE SumOf(_, _)
SumOf(bb, f) == IF bb = <<>> THEN 0 ELSE Head(bb)[f] + SumOf(Tail(bb), f)

\* the sort key (b.page, *centroid_yx(b.bbox)) of a is below that of b;
\* the centroids sum(ys)/len(ys) and sum(xs)/len(xs) compared as fractions
KeyLess(a, b) ==
    LET na == Len(a.bbox)
        nb == Len(b.bbox)
        ya == SumOf(a.bbox, "y") * nb
        yb == SumOf(b.bbox, "y") * na
        xa == SumOf(a.bbox, "x") * nb
        xb == SumOf(b.bbox, "x") * na
    IN \/ a.page < b.page
       \/ a.page = b.page /\ ya < yb
       \/ a.page = b.page /\ ya = yb /\ xa < xb

\* b put into the sorted s behind every element whose key is not above its own
RECURSIVE InsertByKey(_, _)
InsertByKey(s, b) ==
    IF s # <<>> /\ KeyLess(b, s[Len(s)])
    THEN Append(InsertByKey(SubSeq(s, 1, Len(s) - 1), b), s[Len(s)])
    ELSE Append(s, b)

RECURSIVE SortedByKey(_)
SortedByKey(s) ==
    IF s = <<>> THEN <<>>
    ELSE InsertByKey(SortedByKey(SubSeq(s, 1, Len(s) - 1)), s[Len(s)])

ServiceOrder(s) == s
\* blocks.sort(key=lambda b: (b.page, *centroid_yx(b.bbox))): stable
SortBlocks(s) == SortedByKey(s)

\* centroid_yx divides by len(ys): ZeroDivisionError on an empty bbox
SortRaises(s) == \E k \in 1..Len(s) : s[k].bbox = <<>>

Whole == page_count <= maxpages

\* page_count <= maxpages: process_small_pdf on the whole file, process_document answers
process_pdf_whole ==
    /\ pc = "process_pdf"
    /\ Whole
    /\ page_number' = 0
    /\ num_pages' = page_count
    /\ pidx' = 0
    /\ cur' = <<>>
    /\ calls' = calls + 1
    /\ pc' = "pages"
    /\ UNCHANGED <<page_count, maxpages, gi, blocks, lists>>
    /\ UNCHANGED pipeVars
    /\ UNCHANGED mainVars

\* page_count > maxpages: one iteration of  for i in range(page_count), page i alone
process_pdf_split ==
    /\ pc = "process_pdf"
    /\ ~Whole
    /\ gi < page_count
    /\ page_number' = PageNumberArg(gi)
    /\ num_pages' = 1
    /\ pidx' = 0
    /\ cur' = <<>>
    /\ calls' = calls + 1
    /\ pc' = "pages"
    /\ UNCHANGED <<page_count, maxpages, gi, blocks, lists>>
    /\ UNCHANGED pipeVars
    /\ UNCHANGED mainVars

\* client.process_document raises
process_document_raise ==
    /\ pc = "process_pdf"
    /\ IF Whole THEN TRUE ELSE gi < page_count
    /\ calls' = calls + 1
    /\ err' = [type |-> "ServiceError", url |-> "", attempts |-> 0]
    /\ pc' = "raised"
    /\ UNCHANGED <<page_count, maxpages, gi, page_number, num_pages, pidx, cur,
                   blocks, lists>>
    /\ UNCHANGED <<kind, source, max_words, overlap, attempt, resp, requests,
                   soup, marks, text, words, i, chunks, starts, out, uuids>>
    /\ UNCHANGED mainVars

\* one iteration of   for p in doc.pages
process_small_pdf_page ==
    /\ pc = "pages"
    /\ pidx < num_pages
    /\ \E p \in ServicePages :
         cur' = cur \o PageBlocks(p, page_number, pidx + 1, gi, Len(cur))
    /\ pidx' = pidx + 1
    /\ UNCHANGED <<pc, page_count, maxpages, gi, page_number, num_pages, blocks,
                   calls, lists>>
    /\ UNCHANGED pipeVars
    /\ UNCHANGED mainVars

\* blocks.sort(...) raises
process_small_pdf_raise ==
    /\ pc = "pages"
    /\ pidx = num_pages
    /\ SortRaises(cur)
    /\ err' = [type |-> "ZeroDivisionError", url |-> "", attempts |-> 0]
    /\ pc' = "raised"
    /\ UNCHANGED docaiVars
    /\ UNCHANGED <<kind, source, max_words, overlap, attempt, resp, requests,
                   soup, marks, text, words, i, chunks, starts, out, uuids>>
    /\ UNCHANGED mainVars

\* blocks.sort(...); return blocks -- and the caller's blocks = ... (then return
\* blocks) or blocks.extend(...) (then the next i)
process_small_pdf_return ==
    /\ pc = "pages"
    /\ pidx = num_pages
    /\ ~SortRaises(cur)
    /\ blocks' = IF Whole THEN SortBlocks(cur) ELSE blocks \o SortBlocks(cur)
    /\ lists' = Append(lists, SortBlocks(cur))
    /\ gi' = IF Whole THEN gi ELSE gi + 1
    /\ pc' = IF Whole THEN "done" ELSE "process_pdf"
    /\ cur' = <<>>
    /\ UNCHANGED <<page_count, maxpages, page_number, num_pages, pidx, calls>>
    /\ UNCHANGED pipeVars
    /\ UNCHANGED mainVars

\* the loop of line 144 is over: return blocks
process_pdf_return ==
    /\ pc = "process_pdf"
    /\ ~Whole
    /\ ~(gi < page_count)
    /\ pc' = "done"
    /\ UNCHANGED docaiVars
    /\ UNCHANGED pipeVars
    /\ UNCHANGED mainVars

\* the call process_pdf(processor_name, pdf_path, metadata, maxpages)
InitDocai ==
    /\ kind = "docai"
    /\ source \in Paths
    /\ page_count \in 0..MaxPages
    /\ maxpages \in 1..MaxMaxpages
    /\ pc = "process_pdf"
    /\ max_words = 0
    /\ overlap = 0
    /\ attempt = 0
    /\ resp = NoResp
    /\ requests = <<>>
    /\ err = NoErr
    /\ soup = <<>>
    /\ marks = <<>>
    /\ text = <<>>
    /\ words = <<>>
    /\ i = 0
    /\ chunks = <<>>
    /\ starts = <<>>
    /\ out = <<>>
    /\ uuids = 0
    /\ gi = 0
    /\ page_number = 0
    /\ num_pages = 0
    /\ pidx = 0
    /\ cur = <<>>
    /\ blocks = <<>>
    /\ calls = 0
    /\ lists = <<>>
    /\ batch = <<>>
    /\ taken = 0
    /\ items = <<>>
    /\ results = <<>>

NextDocai ==
    \/ process_pdf_whole
    \/ process_pdf_split
    \/ process_document_raise
    \/ process_small_pdf_page
    \/ process_small_pdf_raise
    \/ process_small_pdf_return
    \/ process_pdf_return

SpecDocai == InitDocai /\ [][NextDocai]_vars

---------------------------------------------------------------------------
(* main: the batch loops.  parse_and_chunk.py: a directory of PDFs (lines     *)
(* 174-180) or a TSV of URLs (lines 183-192); docai_prototype.py: a directory *)
(* of PDFs (lines 228-234) or a TSV of PDFs (lines 237-246).  Each iteration  *)
(* runs the call modelled above inside  try: ... except Exception.            *)

MaxItems == 2       \* inputs of a batch run

\* sorted(inp.glob("*.pdf")): distinct paths in sorted order
SortedPdfs ==
    << <<"papers", "p1.pdf">>, <<"papers", "p2.pdf">>, <<"papers", "p3.pdf">>,
       <<"papers", "p4.pdf">> >>

\* the url column of the TSV: a URL may come twice
UrlColumn == <<"u1", "u2", "u1", "u2">>

\* the inputs of a run: the first files of the listing, or the first rows of the TSV
Batches(k) ==
    LET all == IF k = "url" THEN UrlColumn ELSE SortedPdfs
    IN {SubSeq(all, 1, len) : len \in 0..Min(MaxItems, Len(all))}

(* What the inputs of a batch run hold, a part of what a single call is      *)
(* checked with: a PDF without pages or with the one page "a b"; a web page  *)
(* without elements or with <div><code>a</code></div>; a service that lists  *)
(* for a page one block, with or without vertices.                           *)
BatchPdfs == { <<>>, << <<"a", " ", "b">> >> }

BatchHtmlDocs ==
    { <<>>, <<Element("div", "", <<Element("code", "", <<TextNode(OneLine)>>)>>)>> }

BatchServicePages ==
    { [blocks |-> b, paragraphs |-> <<>>, lines |-> <<>>] :
        b \in {<<LowBlock>>, <<BareBlock>>} }

NoSource(k) == IF k = "url" THEN "" ELSE <<>>

\* the value of the call in  items.extend(<call>)  /  blocks.extend(<call>)
Result == IF kind = "docai" THEN blocks ELSE out

\* the lists the call had built when it raised: they die with its frame
Partial == IF kind = "docai" THEN blocks \o cur ELSE out

\* history: an input, how its call ended, what it returned, whether it had
\* built anything when it raised
Ended(src, ok, value, partial) ==
    [source |-> src, ok |-> ok, value |-> value, partial |-> partial # <<>>]

\* the locals of a call that has ended
CallEnded ==
    /\ attempt' = 0
    /\ resp' = NoResp
    /\ requests' = <<>>
    /\ err' = NoErr
    /\ soup' = <<>>
    /\ marks' = <<>>
    /\ text' = <<>>
    /\ words' = <<>>
    /\ i' = 0
    /\ chunks' = <<>>
    /\ starts' = <<>>
    /\ out' = <<>>
    /\ page_count' = 0
    /\ gi' = 0
    /\ page_number' = 0
    /\ num_pages' = 0
    /\ pidx' = 0
    /\ cur' = <<>>
    /\ blocks' = <<>>
    /\ calls' = 0
    /\ lists' = <<>>

\* items.extend(r)
Extend(acc, r) == acc \o r

after_except_break == "written"
\* where the handler leaves main: it prints a warning and ends, so the for loop
\* is back at its head
after_except == "main"

\* for pdf in pdfs / for i, row in file_data.iterrows(): the next input, and the
\* call of process_pdf_file, process_url or process_pdf (which reads page_count)
main_loop ==
    /\ pc = "main"
    /\ taken < Len(batch)
    /\ taken' = taken + 1
    /\ source' = batch[taken + 1]
    /\ attempt' = IF kind = "url" THEN 1 ELSE 0
    /\ page_count' \in (IF kind = "docai" THEN 0..MaxPages ELSE {0})
    /\ pc' = (IF kind = "pdf" THEN "parse_pdf"
              ELSE IF kind = "url" THEN "fetch_url" ELSE "process_pdf")
    /\ UNCHANGED <<kind, max_words, overlap, resp, requests, err, soup, marks, text,
                   words, i, chunks, starts, out, uuids>>
    /\ UNCHANGED <<maxpages, gi, page_number, num_pages, pidx, cur, blocks, calls, lists>>
    /\ UNCHANGED <<batch, items, results>>

\* the call returned: items.extend(...) / blocks.extend(...)
main_extend ==
    /\ pc = "done"
    /\ items' = Extend(items, Result)
    /\ results' = Append(results, Ended(source, TRUE, Result, <<>>))
    /\ CallEnded
    /\ pc' = "main"
    /\ UNCHANGED <<kind, source, max_words, overlap, uuids, maxpages, batch, taken>>

\* the call raised: except Exception as e: print("Warning: ...")
main_except ==
    /\ pc = "raised"
    /\ results' = Append(results, Ended(source, FALSE, <<>>, Partial))
    /\ CallEnded
    /\ pc' = after_except
    /\ UNCHANGED <<kind, source, max_words, overlap, uuids, maxpages, batch, taken, items>>

\* the loop is over: write_jsonl(items, out) / blocks_to_jsonl(blocks, out)
main_write ==
    /\ pc = "main"
    /\ ~(taken < Len(batch))
    /\ pc' = "written"
    /\ UNCHANGED pipeVars
    /\ UNCHANGED docaiVars
    /\ UNCHANGED mainVars

(* A run of main over a directory or a TSV.  --max-words and --overlap hold   *)
(* for the whole run.  main leaves maxpages at the default of process_pdf;    *)
(* the default is drawn from 1..MaxMaxpages, so that the documents of the     *)
(* model fall on both sides of it.                                            *)
InitMain ==
    /\ kind \in {"pdf", "url", "docai"}
    /\ batch \in Batches(kind)
    /\ source = NoSource(kind)
    /\ max_words \in (IF kind = "docai" THEN {0} ELSE 1..MaxWords)
    /\ overlap \in (IF kind = "docai" THEN {0} ELSE 0..(max_words - 1))
    /\ maxpages \in (IF kind = "docai" THEN 1..MaxMaxpages ELSE {0})
    /\ pc = "main"
    /\ taken = 0
    /\ items = <<>>
    /\ results = <<>>
    /\ attempt = 0
    /\ resp = NoResp
    /\ requests = <<>>
    /\ err = NoErr
    /\ soup = <<>>
    /\ marks = <<>>
    /\ text = <<>>
    /\ words = <<>>
    /\ i = 0
    /\ chunks = <<>>
    /\ starts = <<>>
    /\ out = <<>>
    /\ uuids = 0
    /\ page_count = 0
    /\ gi = 0
    /\ page_number = 0
    /\ num_pages = 0
    /\ pidx = 0
    /\ cur = <<>>
    /\ blocks = <<>>
    /\ calls = 0
    /\ lists = <<>>

NextMain ==
    \/ main_loop
    \/ main_extend
    \/ main_except
    \/ main_write
    \/ (\E pages \in BatchPdfs : text' = parse_pdf(pages)) /\ process_pdf_file_parse
    \/ process_pdf_file_raise
    \/ fetch_url_loop
    \/ fetch_url_raise
    \/ fetch_url_return
    \/ (\E body \in BatchHtmlDocs : soup' = decompose(body)) /\ scrape_url
    \/ chunk_text_init
    \/ chunk_text_loop
    \/ chunk_text_return
    \/ process_loop
    \/ process_return
    \/ process_pdf_whole
    \/ process_pdf_split
    \/ process_document_raise
    \/ (\E p \in BatchServicePages :
            cur' = cur \o PageBlocks(p, page_number, pidx + 1, gi, Len(cur)))
         /\ process_small_pdf_page
    \/ process_small_pdf_raise
    \/ process_small_pdf_return
    \/ process_pdf_return

SpecMain == InitMain /\ [][NextMain]_vars

---------------------------------------------------------------------------
(* Properties of chunk_text *)

\* chunk_text has returned to process_pdf_file / process_url
Returned == pc \in {"records", "done"}

CeilDiv(a, b) == (a + b - 1) \div b

Max(a, b) == IF a > b THEN a ELSE b

\* ws joined by single spaces
RECURSIVE SpaceJoined(_)
SpaceJoined(ws) ==
    IF Len(ws) = 0 THEN <<>>
    ELSE IF Len(ws) = 1 THEN ws[1]
    ELSE SpaceJoined(SubSeq(ws, 1, Len(ws) - 1)) \o <<" ">> \o ws[Len(ws)]

\* words[lo : lo + m], lo counted from 0
Window(ws, lo, m) == [j \in 1..Min(m, Len(ws) - lo) |-> ws[lo + j]]

(* C1: with 0 <= overlap < max_words, chunk_text returns exactly the chunks  *)
(* words[k*(m-o) : k*(m-o)+m] joined by single spaces, for k = 0, 1, ...     *)
(* while k*(m-o) < W, in that order; "a b c d e f g h" with max_words=3,     *)
(* overlap=1 gives ["a b c", "c d e", "e f g", "g h"].                       *)
C1_StridedWindows ==
    Returned =>
        LET W == Len(words)
            s == max_words - overlap
            ks == {k \in 0..W : k * s < W}
        IN /\ Len(chunks) = Cardinality(ks)
           /\ \A k \in ks : chunks[k + 1] = SpaceJoined(Window(words, k * s, max_words))
           /\ (text = Example /\ max_words = 3 /\ overlap = 1) =>
                 chunks = << <<"a", " ", "b", " ", "c">>, <<"c", " ", "d", " ", "e">>,
                             <<"e", " ", "f", " ", "g">>, <<"g", " ", "h">> >>

C1_Witness ==
    /\ Returned
    /\ text = Example /\ max_words = 3 /\ overlap = 1
    /\ Len(chunks) = 4

(* C2 as stated: the number of chunks is ceil(max(0, W-o) / (m-o)) when      *)
(* W > 0, and 0 when W = 0.                                                  *)
C2_CountAsStated ==
    Returned =>
        LET W == Len(words)
        IN Len(chunks) =
             IF W > 0 THEN CeilDiv(Max(0, W - overlap), max_words - overlap) ELSE 0

(* C2 amended: the number of chunks is ceil(W / (m-o)), which is 0 when      *)
(* W = 0: one chunk per start index 0, m-o, 2(m-o), ... below W.             *)
C2_CountIsCeilOfWOverStride ==
    Returned => Len(chunks) = CeilDiv(Len(words), max_words - overlap)

C2_Witness ==
    /\ Returned
    /\ overlap > 0
    /\ Len(words) > overlap
    /\ Len(chunks) > CeilDiv(Len(words) - overlap, max_words - overlap)

\* the words of chunk k as the output gives them
ChunkWords(k) == Split(chunks[k])

\* the input positions (from 1) chunk k covers
Covered(k) == (starts[k] + 1)..(starts[k] + Len(ChunkWords(k)))

\* number of input words from the start index of chunk k to the end of the text
Remaining(k) == Len(words) - starts[k]

Distinct(ws) == \A a, b \in 1..Len(ws) : a # b => ws[a] # ws[b]

(* C3: consecutive chunks k and k+1 share exactly min(o, remaining words)    *)
(* words: the last that many words of chunk k are the first that many words  *)
(* of chunk k+1, at the same input positions, and the chunks have no other   *)
(* input position in common (with pairwise distinct words, no longer suffix  *)
(* of chunk k is a prefix of chunk k+1).                                     *)
C3_SharedWords ==
    Returned =>
        \A k \in 1..(Len(chunks) - 1) :
            LET a == ChunkWords(k)
                b == ChunkWords(k + 1)
                n == Min(overlap, Remaining(k + 1))
            IN /\ a = SubSeq(words, starts[k] + 1, starts[k] + Len(a))
               /\ b = SubSeq(words, starts[k + 1] + 1, starts[k + 1] + Len(b))
               /\ Cardinality(Covered(k) \cap Covered(k + 1)) = n
               /\ Covered(k) \cap Covered(k + 1) =
                     (starts[k + 1] + 1)..(starts[k + 1] + n)
               /\ Covered(k) \cap Covered(k + 1) =
                     (starts[k] + Len(a) - n + 1)..(starts[k] + Len(a))
               /\ SubSeq(a, Len(a) - n + 1, Len(a)) = SubSeq(b, 1, n)
               /\ Distinct(words) =>
                     \A n2 \in (n + 1)..Min(Len(a), Len(b)) :
                         SubSeq(a, Len(a) - n2 + 1, Len(a)) # SubSeq(b, 1, n2)

C3_Witness ==
    /\ Returned
    /\ Distinct(words)
    /\ \E k \in 2..Len(chunks) : Remaining(k) < overlap
    /\ \E k \in 2..Len(chunks) : Remaining(k) > overlap

---------------------------------------------------------------------------
(* Properties of the record loop *)

(* C4: the chunk_index values of the records of one source are exactly       *)
(* 0..n-1, n the number of chunks chunk_text returned, without gap or        *)
(* repeat, and record i carries the i-th chunk in chunk_text's order.        *)
C4_ChunkIndexContiguous ==
    Returned =>
        /\ Len(out) <= Len(chunks)
        /\ \A j \in 1..Len(out) :
              /\ out[j].chunk_index = j - 1
              /\ out[j].text = chunks[j]
              /\ out[j].source = source
        /\ pc = "done" =>
              /\ Len(out) = Len(chunks)
              /\ {out[j].chunk_index : j \in 1..Len(out)} = 0..(Len(chunks) - 1)
              /\ Cardinality({out[j].chunk_index : j \in 1..Len(out)}) = Len(out)

C4_Witness ==
    /\ pc = "done"
    /\ kind = "url"
    /\ Len(out) >= 3

---------------------------------------------------------------------------
(* Properties of fetch_url *)

\* the request got a response with a successful status
Success(o) == ~o.exc /\ o.status < 400

\* fetch_url has left its loop
LoopLeft == kind = "url" /\ pc # "fetch_url"

\* fetch_url has returned to scrape_url
Fetched == pc = "scrape_url"

(* C8: the configurations are tried in the fixed order primary, fallback     *)
(* (with Referer equal to the URL); a 403 or a transport error on one makes  *)
(* fetch_url go on to the next; it returns the response of the first one     *)
(* with a successful status and issues no request after it.  403 on the      *)
(* primary and 200 on the fallback returns the fallback response, no raise.  *)
C8_FallbackOrder ==
    LET n == Len(requests)
    IN /\ \A j \in 1..n : requests[j].cfg = j
       /\ n >= 1 => requests[1].hdrs = ("User-Agent" :> "default_ua")
       /\ n >= 2 => /\ requests[2].hdrs["User-Agent"] = "fallback_ua"
                    /\ requests[2].hdrs["Referer"] = source
       /\ \A j \in 1..(n - 1) : ~Success(requests[j].outcome)
       /\ (LoopLeft /\ n >= 1
             /\ (requests[1].outcome.exc \/ requests[1].outcome.status = Forbidden))
             => n = 2
       /\ Fetched =>
             /\ Success(requests[n].outcome)
             /\ resp = [status |-> requests[n].outcome.status, cfg |-> n]
       /\ (\E j \in 1..n : Success(requests[j].outcome)) =>
             /\ err = NoErr
             /\ pc # "raised"
             /\ pc = "fetch_end" => resp.cfg = n
       /\ (Fetched /\ n = 2 /\ requests[1].outcome.status = Forbidden
                   /\ requests[2].outcome.status = 200) => resp.cfg = 2

C8_Witness ==
    /\ Fetched
    /\ Len(requests) = 2
    /\ requests[1].outcome.status = Forbidden
    /\ requests[2].outcome.status = 200
    /\ resp = [status |-> 200, cfg |-> 2]

(* C9: at most one request per header configuration, never more requests     *)
(* than the fixed list is long; when every configuration ends without a      *)
(* usable response fetch_url raises the error naming the URL and the number  *)
(* of attempts; whenever it returns, the response has a successful status.   *)
C9_BoundedAttempts ==
    LET n == Len(requests)
    IN /\ n <= Len(attempts(source))
       /\ \A j, k \in 1..n : j # k => requests[j].cfg # requests[k].cfg
       /\ (kind = "url" /\ pc = "raised") =>
             /\ err = [type |-> "HTTPError", url |-> source,
                       attempts |-> Len(attempts(source))]
             /\ n = Len(attempts(source))
             /\ \A j \in 1..n : ~Success(requests[j].outcome)
       /\ (LoopLeft /\ pc # "fetch_end" /\ n = Len(attempts(source))
             /\ \A j \in 1..n : ~Success(requests[j].outcome))
             => pc = "raised"
       /\ Fetched =>
             /\ resp.status # Forbidden
             /\ resp.status \in Statuses
             /\ resp.status < 400

C9_Witness ==
    /\ kind = "url"
    /\ pc = "raised"
    /\ requests[1].outcome.status = 500
    /\ requests[2].outcome.exc

---------------------------------------------------------------------------
(* Properties of scrape_url *)

\* number of lines of node.get_text()
RECURSIVE LineCount(_)
LineCount(n) ==
    IF n.tag = "#text" THEN Len(n.lines)
    ELSE IF n.kids = <<>> THEN 1
    ELSE LET cs == [k \in 1..Len(n.kids) |-> LineCount(n.kids[k])]
             RECURSIVE Sum(_)
             Sum(q) == IF q = <<>> THEN 0 ELSE Head(q) + Sum(Tail(q))
         IN Sum(cs) - (Len(cs) - 1)

\* the pre / code elements of the content root, by path
CodePaths(doc) ==
    LET a == FindArticle(doc, 1)
        top == IF a = 0 THEN {<<t>> : t \in {u \in 1..Len(doc) : doc[u].tag \in CodeTags}}
               ELSE {}
        roots == IF a = 0 THEN 1..Len(doc) ELSE {a}
        sub == UNION {{<<t, k>> : k \in {j \in 1..Len(doc[t].kids) :
                                            doc[t].kids[j].tag \in CodeTags}} : t \in roots}
    IN top \cup sub

NodeAt(doc, path) ==
    IF Len(path) = 1 THEN doc[path[1]] ELSE doc[path[1]].kids[path[2]]

\* sentinels opened and not yet closed before output line p
Depth(es, p) ==
    Cardinality({q \in 1..(p - 1) : es[q].line = <<"[CODEBLOCK]">>})
      - Cardinality({q \in 1..(p - 1) : es[q].line = <<"[/CODEBLOCK]">>})

\* the output lines that are text of the element at path
LinesOf(es, path) == {p \in 1..Len(es) : path \in es[p].owners}

(* C10: for every pre / code element of the content root, text that spans    *)
(* more than one line appears between [CODEBLOCK] and its [/CODEBLOCK];      *)
(* text on a single line appears in the output outside any such pair.        *)
C10_MultilineOnlyMarked ==
    pc = "scraped" =>
        \A path \in CodePaths(soup) :
            LET n == NodeAt(soup, path)
                ps == LinesOf(marks, path)
            IN /\ n.kids # <<>> => ps # {}
               /\ LineCount(n) > 1 => \A p \in ps : Depth(marks, p) > 0
               /\ LineCount(n) = 1 => \A p \in ps : Depth(marks, p) = 0

---------------------------------------------------------------------------
(* Properties of process_pdf *)

\* every block process_pdf holds or returns, with those of the running call
HeldBlocks == {blocks[j] : j \in 1..Len(blocks)} \cup {cur[j] : j \in 1..Len(cur)}

(* C5 as stated: with P > m a block of group g (from 0) has page             *)
(* g*m + local_page_number; with P <= m page is the local page number.       *)
C5_PageIsGroupTimesMaxpages ==
    kind = "docai" =>
        \A b \in HeldBlocks :
            b.page = (IF Whole THEN 0 ELSE b.group * maxpages) + b.local

(* C5 amended: with P > m every page is submitted as a group of its own, in  *)
(* page order; a block of group g (from 0) has page g + local_page_number,   *)
(* which is g + 1 as the one page of a response is its page 1, so the offset *)
(* of group g is g and not g*m.  With P <= m the offset is 0 and page is     *)
(* the page number the service reported.                                     *)
C5_PageIsGroupPlusLocal ==
    kind = "docai" =>
        \A b \in HeldBlocks :
            /\ b.page = (IF Whole THEN 0 ELSE b.group) + b.local
            /\ ~Whole => b.local = 1 /\ b.page = b.group + 1
            /\ Whole => b.group = 0 /\ b.page \in 1..page_count

C5_Witness ==
    /\ pc = "done"
    /\ page_count > maxpages
    /\ maxpages >= 2
    /\ \E j \in 1..Len(blocks) : blocks[j].group >= 1 /\ blocks[j].page = blocks[j].group + 1

\* the references / bibliography heading pattern on a block's text
IsReferencesHeading(t) ==
    /\ Strip(t) # <<>>
    /\ Head(Strip(t)) \in {"References", "Bibliography"}

Matches(l) == {j \in 1..Len(l) : IsReferencesHeading(l[j].text)}
LastMatch(l) == CHOOSE j \in Matches(l) : \A k \in Matches(l) : k <= j

\* the groups, by call, whose returned list holds a matching block
MatchingGroups == {g \in 1..Len(lists) : Matches(lists[g]) # {}}
FirstMatching == CHOOSE g \in MatchingGroups : \A h \in MatchingGroups : g <= h

(* C6: when a group's block list holds blocks matching the references        *)
(* heading pattern, the list is cut just before the last matching index, no  *)
(* later group is submitted, and the result is the earlier groups' blocks    *)
(* followed by the cut list.                                                 *)
C6_TruncatedAtLastReferences ==
    (kind = "docai" /\ MatchingGroups # {}) =>
        /\ calls <= FirstMatching
        /\ pc = "done" =>
              blocks = Concat(SubSeq(lists, 1, FirstMatching - 1))
                         \o SubSeq(lists[FirstMatching], 1,
                                   LastMatch(lists[FirstMatching]) - 1)

\* blocks a and b, in this order in a list, come from the same response
SameResponse(a, b) == a.group = b.group

(* C7 as stated: the blocks of one response are returned in the order the    *)
(* service listed them.                                                      *)
C7_ServiceOrderKept ==
    kind = "docai" =>
        \A j, k \in 1..Len(blocks) :
            (j < k /\ SameResponse(blocks[j], blocks[k])) => blocks[j].ord < blocks[k].ord

\* centroid of b's bounding polygon, times the number of vertices of the other block
CentroidTimes(b, f, n) == SumOf(b.bbox, f) * n

\* a comes before b in the order page, then centroid y, then centroid x
Precedes(a, b) ==
    LET na == Len(a.bbox)
        nb == Len(b.bbox)
    IN IF a.page # b.page THEN a.page < b.page
       ELSE IF CentroidTimes(a, "y", nb) # CentroidTimes(b, "y", na)
            THEN CentroidTimes(a, "y", nb) < CentroidTimes(b, "y", na)
       ELSE CentroidTimes(a, "x", nb) < CentroidTimes(b, "x", na)

(* C7 amended: the blocks of one response are returned sorted by page, then  *)
(* by the y and then the x of the centroid of their bounding polygon; only   *)
(* blocks equal in all three keep the order the service listed them in.      *)
C7_SortedByPageAndCentroid ==
    kind = "docai" =>
        \A j, k \in 1..Len(blocks) :
            (j < k /\ SameResponse(blocks[j], blocks[k])) =>
                /\ ~Precedes(blocks[k], blocks[j])
                /\ ~Precedes(blocks[j], blocks[k]) => blocks[j].ord < blocks[k].ord

C7_Witness ==
    /\ pc = "done"
    /\ \E j, k \in 1..Len(blocks) :
          /\ j < k
          /\ SameResponse(blocks[j], blocks[k])
          /\ blocks[j].page = blocks[k].page
          /\ blocks[j].ord > blocks[k].ord
    /\ \E j, k \in 1..Len(blocks) :
          /\ j < k
          /\ SameResponse(blocks[j], blocks[k])
          /\ ~Precedes(blocks[j], blocks[k])

---------------------------------------------------------------------------
(* Properties of the batch loops of main *)

\* what the calls that returned gave, in the order of the calls
RECURSIVE Contributions(_)
Contributions(rs) ==
    IF rs = <<>> THEN <<>>
    ELSE LET last == rs[Len(rs)]
         IN Contributions(SubSeq(rs, 1, Len(rs) - 1))
              \o (IF last.ok THEN last.value ELSE <<>>)

\* main is between two iterations, or behind the loop
BetweenItems == pc \in {"main", "written"}

(* C11: in a batch run, whichever calls raise, the loop goes on with every    *)
(* later input in input order: the k-th call is for the k-th input, and main  *)
(* writes only after the last input.  A call that raised adds nothing to the  *)
(* output, whatever it had built before; a call that returned adds all it     *)
(* returned, in order, behind what the earlier inputs added.                  *)
C11_FailureIsolation ==
    /\ BetweenItems =>
         /\ Len(results) = taken
         /\ \A k \in 1..Len(results) : results[k].source = batch[k]
         /\ items = Contributions(results)
         /\ kind # "docai" =>
              \A k \in 1..Len(results) : \A j \in 1..Len(results[k].value) :
                 /\ results[k].value[j].source = batch[k]
                 /\ results[k].value[j].chunk_index = j - 1
    /\ pc = "written" => taken = Len(batch)

\* a document whose second page failed after its first gave blocks, then a
\* document that gave blocks
C11_Witness ==
    /\ pc = "written"
    /\ kind = "docai"
    /\ Len(results) = 2
    /\ ~results[1].ok
    /\ results[1].partial
    /\ results[2].ok
    /\ results[2].value # <<>>
    /\ items = results[2].value

---------------------------------------------------------------------------
(* Termination and chunk sizes of chunk_text *)

\* the number of words of the k-th chunk returned
WordCount(k) == Len(Split(chunks[k]))

\* the chunks that hold fewer than max_words words
Short == {k \in 1..Len(chunks) : WordCount(k) < max_words}

\* empty exactly when the text has no words; 1 to max_words words in every chunk
EmptyIffNoWords == (chunks = <<>>) <=> (Split(text) = <<>>)
SizesInRange == \A k \in 1..Len(chunks) : WordCount(k) >= 1 /\ WordCount(k) <= max_words

(* C12 as stated, without the termination: when chunk_text has returned, the  *)
(* result is empty exactly when the text has no words, every chunk has 1 to   *)
(* max_words words, and only the final chunk has fewer than max_words words.  *)
C12_OnlyFinalShort ==
    Returned =>
        /\ EmptyIffNoWords
        /\ SizesInRange
        /\ Short \subseteq {Len(chunks)}

(* C12: for every text and 0 <= overlap < max_words, chunk_text returns; the  *)
(* result is empty exactly when the text has no words; every chunk has 1 to   *)
(* max_words words; the chunks with fewer than max_words words are the last   *)
(* ones of the sequence, each with fewer words than the one before it, and    *)
(* with overlap = 0 only the final chunk can be one of them.                  *)
C12_TerminatesShortTail ==
    /\ <>(pc = "records")
    /\ [](Returned =>
            /\ EmptyIffNoWords
            /\ SizesInRange
            /\ \A k \in Short : k < Len(chunks) =>
                  /\ k + 1 \in Short
                  /\ WordCount(k + 1) < WordCount(k)
            /\ overlap = 0 => Short \subseteq {Len(chunks)})

\* "a a a" with max_words = 3, overlap = 2 came back as "a a a", "a a", "a"
C12_Witness ==
    /\ pc = "records"
    /\ max_words = 3
    /\ overlap = 2
    /\ Len(chunks) = 3
    /\ WordCount(1) = 3
    /\ WordCount(2) = 2
    /\ WordCount(3) = 1

====
